---------------------------- MODULE Spec2Model ----------------------------
(***************************************************************************)
(* Model of practice/https/src/bin/server.rs: an HTTP handler that takes   *)
(* the request body and the X-Signature header, rebuilds the "Ethereum     *)
(* Signed Message" digest of the body and recovers the signer's address.   *)
(*                                                                         *)
(* Text is modelled as sequences of byte values (ASCII codes), so that     *)
(* format!, hex decoding and the header lookup are computed, not assumed.  *)
(* Keccak-256 and secp256k1 are modelled ideally: the digest is a term     *)
(* over its preimage (collision free), and a signature names the key and   *)
(* the message it was issued for (unforgeable).                            *)
(***************************************************************************)
EXTENDS Integers, Sequences, FiniteSets, TLC

VARIABLES pc, req, body_bytes, hashed_msg, signature, result, msg, response, stages

vars == <<pc, req, body_bytes, hashed_msg, signature, result, msg, response, stages>>

(***************************************************************************)
(* Bounds of the model.                                                    *)
(***************************************************************************)
MaxLen == 2        \* longest payload enumerated exhaustively
NKeys == 2         \* signing keys held by the environment
NWorkers == 2      \* requests in flight at once

Workers == 1..NWorkers
Keys == 1..NKeys

(***************************************************************************)
(* Bytes and text.                                                         *)
(***************************************************************************)
RECURSIVE Zeros(_)
Zeros(n) == IF n <= 0 THEN <<>> ELSE <<0>> \o Zeros(n - 1)

RECURSIVE SeqsUpTo(_, _)
SeqsUpTo(S, n) ==
    IF n = 0 THEN {<<>>}
    ELSE LET shorter == SeqsUpTo(S, n - 1)
         IN shorter \cup {Append(q, b) : q \in shorter, b \in S}

\* "hello"
Hello == <<104, 101, 108, 108, 111>>

(***************************************************************************)
(* recover_address_from_signature, lines 26-31: the preimage and digest.   *)
(***************************************************************************)
\* The literal "\x19Ethereum Signed Message:\n" of the format string.
Prefix25 ==
    <<69, 116, 104, 101, 114, 101, 117, 109, 32,
      83, 105, 103, 110, 101, 100, 32,
      77, 101, 115, 115, 97, 103, 101, 58, 10>>

Prefix ==
    <<25, 69, 116, 104, 101, 114, 101, 117, 109, 32,
      83, 105, 103, 110, 101, 100, 32,
      77, 101, 115, 115, 97, 103, 101, 58, 10>>

\* Display of an unsigned integer ("{}" of usize, and of each u8 in "{:?}").
RECURSIVE DecimalStr(_)
DecimalStr(n) ==
    IF n < 10 THEN <<48 + n>>
    ELSE DecimalStr(n \div 10) \o <<48 + (n % 10)>>

\* Debug of &[u8] is a debug list: "[" elements joined by ", " "]".
RECURSIVE DebugEntries(_)
DebugEntries(bytes) ==
    IF bytes = <<>> THEN <<>>
    ELSE IF Len(bytes) = 1 THEN DecimalStr(bytes[1])
    ELSE DecimalStr(bytes[1]) \o <<44, 32>> \o DebugEntries(Tail(bytes))

RECURSIVE DebugEntriesUnseparated(_)
DebugEntriesUnseparated(bytes) ==
    IF bytes = <<>> THEN <<>>
    ELSE DecimalStr(bytes[1]) \o DebugEntriesUnseparated(Tail(bytes))

DebugFmtUnseparated(bytes) == <<91>> \o DebugEntriesUnseparated(bytes) \o <<93>>

DebugFmt(bytes) == <<91>> \o DebugEntries(bytes) \o <<93>>

\* The "{:?}" argument rendered as the bytes themselves (the standard
\* personal-sign preimage), which the code does not do.
FormatRawBytes(message) == Prefix \o DecimalStr(Len(message)) \o message

\* format!("\x19Ethereum Signed Message:\n{}{:?}", message.len(), message)
Format(message) == Prefix \o DecimalStr(Len(message)) \o DebugFmt(message)

\* Width of a Keccak-256 digest in bytes ([u8; 32]).
DigestLen == 256 \div 8

\* keccak256: an ideal hash, the digest is a term over the preimage.
keccak256(data) == [len |-> DigestLen, of |-> data]

(***************************************************************************)
(* Signature::from_str, line 34: strip "0x", hex-decode, 65 bytes r|s|v.   *)
(***************************************************************************)
\* Bytes of r, of s, and the one byte of v.
ScalarLen == 256 \div 8
SignatureLen == ScalarLen + ScalarLen + 1

HexVal(c) ==
    IF c \in 48..57 THEN c - 48
    ELSE IF c \in 97..102 THEN c - 87
    ELSE IF c \in 65..70 THEN c - 55
    ELSE -1

\* str::strip_prefix("0x").unwrap_or(s)
Strip0x(s) ==
    IF Len(s) >= 2 /\ s[1] = 48 /\ s[2] = 120 THEN SubSeq(s, 3, Len(s)) ELSE s

\* hex::decode: odd length and non-hex characters are errors.
HexDecode(s) ==
    IF Len(s) % 2 # 0 THEN [ok |-> FALSE, bytes |-> <<>>, cause |-> "OddLength"]
    ELSE IF \E i \in 1..Len(s) : HexVal(s[i]) = -1
         THEN [ok |-> FALSE, bytes |-> <<>>, cause |-> "InvalidHexCharacter"]
    ELSE [ok |-> TRUE,
          bytes |-> [i \in 1..(Len(s) \div 2) |->
                        16 * HexVal(s[2 * i - 1]) + HexVal(s[2 * i])],
          cause |-> ""]

NoSignature == [ok |-> FALSE, r |-> <<>>, s |-> <<>>, v |-> 0, cause |-> ""]

\* A parser that also rejects a v byte that is no recovery id.
SignatureFromBytesCheckedV(bytes) ==
    IF Len(bytes) # SignatureLen
    THEN [NoSignature EXCEPT !.cause = "InvalidLength"]
    ELSE IF bytes[SignatureLen] \notin {0, 1, 27, 28} /\ bytes[SignatureLen] < 35
    THEN [NoSignature EXCEPT !.cause = "InvalidRecoveryId"]
    ELSE [ok |-> TRUE,
          r |-> SubSeq(bytes, 1, ScalarLen),
          s |-> SubSeq(bytes, ScalarLen + 1, 2 * ScalarLen),
          v |-> bytes[SignatureLen],
          cause |-> ""]

\* A parser that takes the first 65 bytes of anything at least that long.
SignatureFromBytesLenient(bytes) ==
    IF Len(bytes) < SignatureLen
    THEN [ok |-> TRUE, r |-> Zeros(ScalarLen), s |-> Zeros(ScalarLen), v |-> 27,
          cause |-> ""]
    ELSE [ok |-> TRUE,
          r |-> SubSeq(bytes, 1, ScalarLen),
          s |-> SubSeq(bytes, ScalarLen + 1, 2 * ScalarLen),
          v |-> bytes[SignatureLen],
          cause |-> ""]

\* Signature::try_from(&[u8]): the length must be 65; v is taken as it is.
SignatureFromBytes(bytes) ==
    IF Len(bytes) # SignatureLen
    THEN [NoSignature EXCEPT !.cause = "InvalidLength"]
    ELSE [ok |-> TRUE,
          r |-> SubSeq(bytes, 1, ScalarLen),
          s |-> SubSeq(bytes, ScalarLen + 1, 2 * ScalarLen),
          v |-> bytes[SignatureLen],
          cause |-> ""]

\* A parser without strip_prefix.
SignatureFromStrNoStrip(text) ==
    LET decoded == HexDecode(text)
    IN IF decoded.ok THEN SignatureFromBytes(decoded.bytes)
       ELSE [NoSignature EXCEPT !.cause = decoded.cause]

\* Signature::from_str
SignatureFromStr(text) ==
    LET decoded == HexDecode(Strip0x(text))
    IN IF decoded.ok THEN SignatureFromBytes(decoded.bytes)
       ELSE [NoSignature EXCEPT !.cause = decoded.cause]

(***************************************************************************)
(* Signature::recover, lines 37-39, over an ideal signature scheme.        *)
(***************************************************************************)
\* Order n of the secp256k1 group, big endian.
CurveOrder ==
    <<255, 255, 255, 255, 255, 255, 255, 255, 255, 255, 255, 255, 255, 255, 255, 254,
      186, 174, 220, 230, 175, 72, 160, 59, 191, 210, 94, 140, 208, 54, 65, 65>>

RECURSIVE BytesLess(_, _)
BytesLess(a, b) ==
    IF a = <<>> \/ b = <<>> THEN FALSE
    ELSE IF a[1] # b[1] THEN a[1] < b[1]
    ELSE BytesLess(Tail(a), Tail(b))

\* Signature::from_scalars: r and s are in 1..n-1.
IsScalar(x) == x # Zeros(ScalarLen) /\ BytesLess(x, CurveOrder)

\* normalize_recovery_id: 4 stands for "not a recovery id".
normalize_recovery_id(v) ==
    CASE v = 0 -> 0
      [] v = 1 -> 1
      [] v = 27 -> 0
      [] v = 28 -> 1
      [] v >= 35 -> (v - 1) % 2
      [] OTHER -> 4

\* 20-byte addresses: of a key the environment holds, and of a key nobody holds.
AddressOf(k) == Zeros(19) \o <<k>>
StrangerAddress == <<255>> \o Zeros(19)

(***************************************************************************)
(* The signer of spec section 8 (Round-trip): key k signs the digest of    *)
(* the documented preimage of payload q.  The ideal signature names its    *)
(* key in r and commits to the signed payload in s.                        *)
(***************************************************************************)
RECURSIVE DocumentedRest(_)
DocumentedRest(q) ==
    IF q = <<>> THEN <<>>
    ELSE <<44, 32>> \o DecimalStr(Head(q)) \o DocumentedRest(Tail(q))

DocumentedRendering(q) ==
    IF q = <<>> THEN <<91, 93>>
    ELSE <<91>> \o DecimalStr(Head(q)) \o DocumentedRest(Tail(q)) \o <<93>>

DocumentedPreimage(q) ==
    <<25>> \o <<69, 116, 104, 101, 114, 101, 117, 109>> \o <<32>>
           \o <<83, 105, 103, 110, 101, 100>> \o <<32>>
           \o <<77, 101, 115, 115, 97, 103, 101, 58>> \o <<10>>
           \o DecimalStr(Len(q)) \o DocumentedRendering(q)

SignedDigest(q) == keccak256(DocumentedPreimage(q))

KeyScalar(k) == Zeros(ScalarLen - 1) \o <<k>>
Commitment(q) == Zeros(ScalarLen - 1 - Len(q)) \o <<Len(q) + 1>> \o q
RecoveryBit(k, q) == (k + Len(q)) % 2

\* r | s | v with v in Electrum notation (27 or 28).
SignBytes(k, q) == KeyScalar(k) \o Commitment(q) \o <<27 + RecoveryBit(k, q)>>

HexDigit(n) == IF n < 10 THEN 48 + n ELSE 87 + n

\* hex::encode
HexEncode(bytes) ==
    [i \in 1..(2 * Len(bytes)) |->
        IF i % 2 = 1 THEN HexDigit(bytes[(i + 1) \div 2] \div 16)
        ELSE HexDigit(bytes[i \div 2] % 16)]

ZeroX == <<48, 120>>

\* The signature as text, with or without the "0x" prefix.
SignatureText(k, q, prefixed) ==
    (IF prefixed THEN ZeroX ELSE <<>>) \o HexEncode(SignBytes(k, q))

\* Who issued (r, s), and for which payload; key 0 when nobody did.
Issuer(r, s) ==
    IF /\ SubSeq(r, 1, ScalarLen - 1) = Zeros(ScalarLen - 1)
       /\ r[ScalarLen] \in Keys
       /\ s # Zeros(ScalarLen)
    THEN LET i == CHOOSE j \in 1..ScalarLen :
                      s[j] # 0 /\ \A h \in 1..(j - 1) : s[h] = 0
         IN IF s[i] = ScalarLen + 1 - i
            THEN [key |-> r[ScalarLen], payload |-> SubSeq(s, i + 1, ScalarLen)]
            ELSE [key |-> 0, payload |-> <<>>]
    ELSE [key |-> 0, payload |-> <<>>]

\* Whether r is the x coordinate of a curve point (about half of all values are).
IsCurveX(r) == r[ScalarLen] % 2 = 1

RecoverError(cause) == [ok |-> FALSE, address |-> <<>>, cause |-> cause]
Recovered(address) == [ok |-> TRUE, address |-> address, cause |-> ""]

\* Signature::recover(H256): Result<Address, SignatureError>.  Every failure is
\* modelled as the Err the signature of recover declares.
SignatureRecover(sig, digest) ==
    LET recid == normalize_recovery_id(sig.v)
        by == Issuer(sig.r, sig.s)
    IN IF recid = 4 THEN RecoverError("RecoveryError")
       ELSE IF ~IsScalar(sig.r) \/ ~IsScalar(sig.s) THEN RecoverError("K256Error")
       ELSE IF by.key # 0
            THEN IF digest = SignedDigest(by.payload) /\ recid = RecoveryBit(by.key, by.payload)
                 THEN Recovered(AddressOf(by.key))
                 ELSE Recovered(StrangerAddress)
       ELSE IF IsCurveX(sig.r) THEN Recovered(StrangerAddress)
       ELSE RecoverError("K256Error")

(***************************************************************************)
(* State: one slot per request in flight.                                  *)
(***************************************************************************)
NoRequest == [hasSig |-> FALSE, sigHeader |-> <<>>, body |-> <<>>,
              signer |-> 0, signed |-> <<>>]
NoBody == [read |-> FALSE, bytes |-> <<>>]
NoDigest == [len |-> 0, of |-> <<>>]
NoResult == [returned |-> FALSE, ok |-> FALSE, address |-> <<>>,
             context |-> "", cause |-> ""]
NoMsg == [text |-> "", address |-> <<>>, context |-> "", cause |-> ""]
NoResponse == [sent |-> FALSE, ok |-> FALSE, content_type |-> "", body |-> NoMsg,
               error |-> ""]

\* anyhow contexts of lines 34 and 39.
ParseContextSwapped == "Failed to recover address"
ParseContext == "Failed to parse signature"
RecoverContext == "Failed to recover address"

\* Literals of handle_request.
MissingHeaderText == "Missing X-Signature header"
SignedByText == "Signed by address: "
FailedText == "Failed to recover address from signature: "

\* req.headers().get("X-Signature"), with a default in place of None.
HeaderLookupOrEmpty(request) == [some |-> TRUE, value |-> request.sigHeader]

\* req.headers().get("X-Signature")
HeaderLookup(request) ==
    IF request.hasSig THEN [some |-> TRUE, value |-> request.sigHeader]
    ELSE [some |-> FALSE, value |-> <<>>]

\* String::from_utf8 on the header bytes the model feeds: ASCII text, or a
\* value holding the byte 0xFF, which no UTF-8 text contains.
IsUtf8(bytes) == \A i \in 1..Len(bytes) : bytes[i] < 128

\* {:?} of an Address: "0x" and 40 hex digits.
AddressDebug(address) == ZeroX \o HexEncode(address)

\* The slice handed to recover_address_from_signature, from one buffer
\* shared by every worker.
MessageShared(w) == body_bytes[1].bytes

\* body_bytes.as_ref(): the slice handed to recover_address_from_signature.
Message(w) == body_bytes[w].bytes

\* signature.as_str()
SignatureStr(w) == HeaderLookup(req[w]).value

(***************************************************************************)
(* Inputs.                                                                 *)
(***************************************************************************)
ByteSample == {1, 12, 21}
LongPayload == <<0, 255, 7, 91, 44, 32, 93, 48, 10, 25, 104, 1>>
Payloads == SeqsUpTo(ByteSample, MaxLen) \cup {Hello, LongPayload}

\* 65 bytes r | s | v given as text.
Crafted(r, s, v) == HexEncode(r \o s \o <<v>>)
SomeR == Zeros(ScalarLen - 1) \o <<201>>
OffCurveR == Zeros(ScalarLen - 1) \o <<200>>
SomeS == Zeros(ScalarLen - 1) \o <<99>>
HighScalar == [i \in 1..ScalarLen |-> 255]

\* v bytes that normalize_recovery_id does not recognize.
UnrecognizedV == {2, 26, 29, 34}

CraftedSignatures ==
    {  <<>>,                                            \* empty
       ZeroX,                                           \* "0x" alone
       <<122, 122>>,                                    \* "zz"
       <<48, 120, 103, 49>>,                            \* "0xg1"
       <<97, 98, 99>>,                                  \* "abc": odd length
       HexEncode(Zeros(SignatureLen - 1)),              \* 64 bytes
       HexEncode(Zeros(SignatureLen + 1)),              \* 66 bytes
       [i \in 1..(2 * SignatureLen) |-> 103],           \* 130 times "g"
       <<32>> \o Crafted(SomeR, SomeS, 27),             \* leading space
       Crafted(Zeros(ScalarLen), SomeS, 27),            \* r = 0
       Crafted(SomeR, Zeros(ScalarLen), 28),            \* s = 0
       Crafted(HighScalar, SomeS, 27),                  \* r >= n
       Crafted(SomeR, SomeS, 27),                       \* nobody's signature
       Crafted(OffCurveR, SomeS, 0) }                   \* r is on no point
    \cup {Crafted(SomeR, SomeS, v) : v \in UnrecognizedV}

\* A signature of key k on payload q with its v byte replaced.
WithV(k, q, v) == HexEncode(SubSeq(SignBytes(k, q), 1, SignatureLen - 1) \o <<v>>)

SignedRequests ==
    {[hasSig |-> TRUE, sigHeader |-> SignatureText(k, q, prefixed), body |-> p,
      signer |-> k, signed |-> q] :
        k \in Keys, q \in Payloads, p \in Payloads, prefixed \in BOOLEAN}

CraftedRequests ==
    {[hasSig |-> TRUE, sigHeader |-> text, body |-> p, signer |-> 0, signed |-> <<>>] :
        text \in CraftedSignatures
                 \cup {WithV(1, Hello, v) : v \in UnrecognizedV \cup {0, 1, 35, 36}},
        p \in Payloads}

\* The (payload, signature) pairs recover_address_from_signature is called on.
VerifyInputs == SignedRequests \cup CraftedRequests

\* The requests the handler is driven with.
SampleRequests ==
    {  [NoRequest EXCEPT !.body = Hello],
       [NoRequest EXCEPT !.body = <<>>],
       [hasSig |-> TRUE, sigHeader |-> SignatureText(1, Hello, TRUE), body |-> Hello,
        signer |-> 1, signed |-> Hello],
       [hasSig |-> TRUE, sigHeader |-> SignatureText(1, Hello, FALSE), body |-> <<1>>,
        signer |-> 1, signed |-> Hello],
       [hasSig |-> TRUE, sigHeader |-> <<>>, body |-> Hello,
        signer |-> 0, signed |-> <<>>],
       [hasSig |-> TRUE, sigHeader |-> Crafted(SomeR, SomeS, 2), body |-> Hello,
        signer |-> 0, signed |-> <<>>],
       [hasSig |-> TRUE, sigHeader |-> <<255>>, body |-> Hello,
        signer |-> 0, signed |-> <<>>] }

(***************************************************************************)
(* handle_request, lines 44-76.                                            *)
(***************************************************************************)
Init ==
    /\ pc = [w \in Workers |-> "idle"]
    /\ req = [w \in Workers |-> NoRequest]
    /\ body_bytes = [w \in Workers |-> NoBody]
    /\ hashed_msg = [w \in Workers |-> NoDigest]
    /\ signature = [w \in Workers |-> NoSignature]
    /\ result = [w \in Workers |-> NoResult]
    /\ msg = [w \in Workers |-> NoMsg]
    /\ response = [w \in Workers |-> NoResponse]
    /\ stages = [w \in Workers |-> <<>>]

\* The service is invoked with a request (line 97).
Accept(w) ==
    /\ pc[w] = "idle"
    /\ \E r \in SampleRequests : req' = [req EXCEPT ![w] = r]
    /\ pc' = [pc EXCEPT ![w] = "handle"]
    /\ UNCHANGED <<body_bytes, hashed_msg, signature, result, msg, response, stages>>

\* Lines 50-53 and 68-70: the header lookup and String::from_utf8.
CheckHeader(w) ==
    /\ pc[w] = "handle"
    /\ LET header == HeaderLookup(req[w])
       IN IF ~header.some
          THEN /\ msg' = [msg EXCEPT ![w] = [NoMsg EXCEPT !.text = MissingHeaderText]]
               /\ pc' = [pc EXCEPT ![w] = "respond"]
               /\ UNCHANGED response
          ELSE IF ~IsUtf8(header.value)
          THEN /\ response' = [response EXCEPT ![w] =
                      [NoResponse EXCEPT !.sent = TRUE,
                                         !.error = "Failed to parse signature header"]]
               /\ pc' = [pc EXCEPT ![w] = "done"]
               /\ UNCHANGED msg
          ELSE /\ pc' = [pc EXCEPT ![w] = "read_body"]
               /\ UNCHANGED <<msg, response>>
    /\ UNCHANGED <<req, body_bytes, hashed_msg, signature, result, stages>>

\* Line 54: hyper::body::to_bytes(req.into_body()).await?
ReadBody(w) ==
    /\ pc[w] = "read_body"
    /\ \E arrived \in BOOLEAN :
          IF arrived
          THEN /\ body_bytes' = [body_bytes EXCEPT ![w] =
                                    [read |-> TRUE, bytes |-> req[w].body]]
               /\ pc' = [pc EXCEPT ![w] = "hash"]
               /\ UNCHANGED response
          ELSE /\ body_bytes' = [body_bytes EXCEPT ![w] = [NoBody EXCEPT !.read = TRUE]]
               /\ response' = [response EXCEPT ![w] =
                      [NoResponse EXCEPT !.sent = TRUE, !.error = "hyper::Error"]]
               /\ pc' = [pc EXCEPT ![w] = "done"]
    /\ UNCHANGED <<req, hashed_msg, signature, result, msg, stages>>

(***************************************************************************)
(* recover_address_from_signature, lines 25-42, one action per statement.  *)
(***************************************************************************)
\* Lines 27-31: let hashed_msg = keccak256(format!(...))
HashMessage(w) ==
    /\ pc[w] = "hash"
    /\ hashed_msg' = [hashed_msg EXCEPT ![w] = keccak256(Format(Message(w)))]
    /\ stages' = [stages EXCEPT ![w] = Append(@, "hash")]
    /\ pc' = [pc EXCEPT ![w] = "parse"]
    /\ UNCHANGED <<req, body_bytes, signature, result, msg, response>>

\* Line 34: Signature::from_str(signature_str).context(...)?
ParseSignature(w) ==
    /\ pc[w] = "parse"
    /\ LET parsed == SignatureFromStr(SignatureStr(w))
       IN /\ signature' = [signature EXCEPT ![w] = parsed]
          /\ IF parsed.ok
             THEN /\ pc' = [pc EXCEPT ![w] = "recover"]
                  /\ UNCHANGED result
             ELSE /\ result' = [result EXCEPT ![w] =
                         [NoResult EXCEPT !.returned = TRUE, !.context = ParseContext,
                                          !.cause = parsed.cause]]
                  /\ pc' = [pc EXCEPT ![w] = "returned"]
    /\ stages' = [stages EXCEPT ![w] = Append(@, "parse")]
    /\ UNCHANGED <<req, body_bytes, hashed_msg, msg, response>>

\* Lines 37-41: signature.recover(H256::from_slice(&hashed_msg)).context(...)?
\* H256::from_slice asserts a 32-byte slice.
RecoverAddress(w) ==
    /\ pc[w] = "recover"
    /\ IF hashed_msg[w].len # DigestLen
       THEN /\ result' = [result EXCEPT ![w] =
                   [NoResult EXCEPT !.returned = TRUE, !.context = "panic"]]
       ELSE LET recovered == SignatureRecover(signature[w], hashed_msg[w])
            IN result' = [result EXCEPT ![w] =
                   IF recovered.ok
                   THEN [NoResult EXCEPT !.returned = TRUE, !.ok = TRUE,
                                         !.address = recovered.address]
                   ELSE [NoResult EXCEPT !.returned = TRUE, !.context = RecoverContext,
                                         !.cause = recovered.cause]]
    /\ stages' = [stages EXCEPT ![w] = Append(@, "recover")]
    /\ pc' = [pc EXCEPT ![w] = "returned"]
    /\ UNCHANGED <<req, body_bytes, hashed_msg, signature, msg, response>>

\* Lines 57-67: the match on the result builds msg.
MatchResult(w) ==
    /\ pc[w] = "returned"
    /\ msg' = [msg EXCEPT ![w] =
           IF result[w].ok
           THEN [NoMsg EXCEPT !.text = SignedByText,
                              !.address = AddressDebug(result[w].address)]
           ELSE [NoMsg EXCEPT !.text = FailedText, !.context = result[w].context,
                              !.cause = result[w].cause]]
    /\ pc' = [pc EXCEPT ![w] = "respond"]
    /\ UNCHANGED <<req, body_bytes, hashed_msg, signature, result, response, stages>>

\* Lines 72-75: the response carries msg as text/plain.
Respond(w) ==
    /\ pc[w] = "respond"
    /\ response' = [response EXCEPT ![w] =
           [NoResponse EXCEPT !.sent = TRUE, !.ok = TRUE, !.content_type = "text/plain",
                              !.body = msg[w]]]
    /\ pc' = [pc EXCEPT ![w] = "done"]
    /\ UNCHANGED <<req, body_bytes, hashed_msg, signature, result, msg, stages>>

\* The future completes; the slot serves the next request.
Finish(w) ==
    /\ pc[w] = "done"
    /\ pc' = [pc EXCEPT ![w] = "idle"]
    /\ req' = [req EXCEPT ![w] = NoRequest]
    /\ body_bytes' = [body_bytes EXCEPT ![w] = NoBody]
    /\ hashed_msg' = [hashed_msg EXCEPT ![w] = NoDigest]
    /\ signature' = [signature EXCEPT ![w] = NoSignature]
    /\ result' = [result EXCEPT ![w] = NoResult]
    /\ msg' = [msg EXCEPT ![w] = NoMsg]
    /\ response' = [response EXCEPT ![w] = NoResponse]
    /\ stages' = [stages EXCEPT ![w] = <<>>]

Next ==
    \E w \in Workers :
        \/ Accept(w)
        \/ CheckHeader(w)
        \/ ReadBody(w)
        \/ HashMessage(w)
        \/ ParseSignature(w)
        \/ RecoverAddress(w)
        \/ MatchResult(w)
        \/ Respond(w)
        \/ Finish(w)

Spec == Init /\ [][Next]_vars

(***************************************************************************)
(* recover_address_from_signature called directly on every input pair.     *)
(***************************************************************************)
InitVerify ==
    /\ \E input \in VerifyInputs :
          /\ req = [w \in Workers |-> IF w = 1 THEN input ELSE NoRequest]
          /\ body_bytes = [w \in Workers |->
                IF w = 1 THEN [read |-> TRUE, bytes |-> input.body] ELSE NoBody]
    /\ pc = [w \in Workers |-> IF w = 1 THEN "hash" ELSE "idle"]
    /\ hashed_msg = [w \in Workers |-> NoDigest]
    /\ signature = [w \in Workers |-> NoSignature]
    /\ result = [w \in Workers |-> NoResult]
    /\ msg = [w \in Workers |-> NoMsg]
    /\ response = [w \in Workers |-> NoResponse]
    /\ stages = [w \in Workers |-> <<>>]

NextVerify ==
    \/ HashMessage(1)
    \/ ParseSignature(1)
    \/ RecoverAddress(1)

SpecVerify == InitVerify /\ [][NextVerify]_vars

(***************************************************************************)
(* Readers used to state the properties: they take text apart without the  *)
(* formatting operators above.                                             *)
(***************************************************************************)
IsDigit(c) == c \in 48..57

\* Last index of the run of digits that starts at i (i - 1 when there is none).
RECURSIVE DigitRunEnd(_, _)
DigitRunEnd(text, i) ==
    IF i <= Len(text) /\ IsDigit(text[i]) THEN DigitRunEnd(text, i + 1) ELSE i - 1

RECURSIVE ReadNumber(_)
ReadNumber(digits) ==
    IF digits = <<>> THEN 0
    ELSE 10 * ReadNumber(SubSeq(digits, 1, Len(digits) - 1)) + (digits[Len(digits)] - 48)

\* The number written at index i, -1 when no digit stands there.
NumberAt(text, i) ==
    LET e == DigitRunEnd(text, i)
    IN IF e < i THEN -1 ELSE ReadNumber(SubSeq(text, i, e))

\* The entries of a list written from index i on, separated by ", ".
RECURSIVE ReadEntries(_, _)
ReadEntries(text, i) ==
    LET e == DigitRunEnd(text, i)
    IN IF e < i THEN <<>>
       ELSE <<ReadNumber(SubSeq(text, i, e))>> \o
            (IF e + 2 <= Len(text) /\ text[e + 1] = 44 /\ text[e + 2] = 32
             THEN ReadEntries(text, e + 3) ELSE <<>>)

DigitCount(n) == IF n < 10 THEN 1 ELSE IF n < 100 THEN 2 ELSE 3

RECURSIVE SumDigitCounts(_)
SumDigitCounts(bytes) ==
    IF bytes = <<>> THEN 0 ELSE DigitCount(Head(bytes)) + SumDigitCounts(Tail(bytes))

\* text is "[b1, b2, ..., bn]" for the bytes b1..bn.
IsListOf(text, bytes) ==
    /\ Len(text) = 2 + SumDigitCounts(bytes)
                     + (IF bytes = <<>> THEN 0 ELSE 2 * (Len(bytes) - 1))
    /\ text[1] = 91
    /\ text[Len(text)] = 93
    /\ ReadEntries(text, 2) = bytes

\* "\x19Ethereum Signed Message:\n" written out.
EthereumSignedMessage ==
    <<25, 69, 116, 104, 101, 114, 101, 117, 109, 32, 83, 105, 103, 110, 101, 100, 32,
      77, 101, 115, 115, 97, 103, 101, 58, 10>>

StartsWith(text, head) ==
    Len(text) >= Len(head) /\ SubSeq(text, 1, Len(head)) = head

Hashed(w) == hashed_msg[w] # NoDigest
Returned(w) == result[w].returned

(***************************************************************************)
(* C1: the hashed preimage is the prefix literal, then the decimal digits  *)
(* of the payload's length, then the debug rendering "[b1, b2, ...]" of    *)
(* the payload, and never the payload's raw bytes; the digest is the       *)
(* 32-byte Keccak-256 of exactly that text.                                *)
(***************************************************************************)
C1_Preimage ==
    \A w \in Workers :
        Hashed(w) =>
            LET pre == hashed_msg[w].of
                payload == body_bytes[w].bytes
                at == Len(EthereumSignedMessage) + 1
                e == DigitRunEnd(pre, at)
            IN /\ StartsWith(pre, EthereumSignedMessage)
               /\ NumberAt(pre, at) = Len(payload)
               /\ e - at + 1 = (IF Len(payload) < 10 THEN 1 ELSE 2)
               /\ IsListOf(SubSeq(pre, e + 1, Len(pre)), payload)
               /\ SubSeq(pre, e + 1, Len(pre)) # payload
               /\ pre = DocumentedPreimage(payload)
               /\ hashed_msg[w].len = 32

C1_Witness ==
    \E w \in Workers :
        /\ body_bytes[w].bytes = Hello
        /\ Hashed(w)
        /\ SubSeq(hashed_msg[w].of, 27, Len(hashed_msg[w].of)) =
              <<53, 91, 49, 48, 52, 44, 32, 49, 48, 49, 44, 32, 49, 48, 56, 44, 32,
                49, 48, 56, 44, 32, 49, 49, 49, 93>>

(***************************************************************************)
(* C10 as stated: the prefix literal is 25 bytes long, so the decimal      *)
(* digits of the payload's length begin at byte offset 25 of the preimage. *)
(***************************************************************************)
C10_DigitsAtOffset25 ==
    \A w \in Workers :
        Hashed(w) =>
            /\ IsDigit(hashed_msg[w].of[25 + 1])
            /\ NumberAt(hashed_msg[w].of, 25 + 1) = Len(body_bytes[w].bytes)

(***************************************************************************)
(* C10 amended: the prefix literal is 26 bytes long (the byte 0x19, the 24 *)
(* characters "Ethereum Signed Message:" and the line feed), so the        *)
(* decimal digits of the payload's length begin at byte offset 26.         *)
(***************************************************************************)
C10_DigitsAtOffset26 ==
    \A w \in Workers :
        Hashed(w) =>
            LET pre == hashed_msg[w].of
            IN /\ pre[1] = 25
               /\ pre[26] = 10
               /\ \A i \in 1..26 : ~IsDigit(pre[i])
               /\ IsDigit(pre[26 + 1])
               /\ NumberAt(pre, 26 + 1) = Len(body_bytes[w].bytes)

C10_Witness ==
    \E w \in Workers :
        /\ Hashed(w)
        /\ Len(body_bytes[w].bytes) = 12
        /\ SubSeq(hashed_msg[w].of, 26, 29) = <<10, 49, 50, 91>>

(***************************************************************************)
(* C2: the stages run in the order hash, parse, recover and the first      *)
(* failure is returned: a failed parse returns "Failed to parse signature" *)
(* with recovery never attempted; a failed recovery after a successful     *)
(* parse returns "Failed to recover address"; an address is returned only  *)
(* when both succeeded.  Each error carries the context of its own stage.  *)
(***************************************************************************)
C2_StageOrder ==
    \A w \in Workers :
        /\ \E n \in 0..3 : stages[w] = SubSeq(<<"hash", "parse", "recover">>, 1, n)
        /\ Returned(w) =>
              /\ result[w].context = "Failed to parse signature" =>
                    /\ stages[w] = <<"hash", "parse">>
                    /\ ~signature[w].ok
                    /\ ~result[w].ok
              /\ result[w].context = "Failed to recover address" =>
                    /\ stages[w] = <<"hash", "parse", "recover">>
                    /\ signature[w].ok
                    /\ ~result[w].ok
              /\ result[w].ok =>
                    /\ stages[w] = <<"hash", "parse", "recover">>
                    /\ signature[w].ok
                    /\ result[w].context = ""
              /\ ~signature[w].ok => result[w].context = "Failed to parse signature"
              /\ signature[w].ok /\ ~result[w].ok =>
                    result[w].context = "Failed to recover address"

C2_Witness ==
    \E w \in Workers :
        /\ Returned(w)
        /\ result[w].context = "Failed to parse signature"
        /\ result[w].cause = "InvalidLength"
        /\ stages[w] = <<"hash", "parse">>

(***************************************************************************)
(* What the signature text is, read without the parser.                    *)
(***************************************************************************)
IsHexChar(c) == c \in (48..57) \cup (97..102) \cup (65..70)

\* The text after an optional leading "0x".
Digits(text) ==
    IF StartsWith(text, <<48, 120>>) THEN SubSeq(text, 3, Len(text)) ELSE text

\* Not valid hex, or not the hex of exactly 65 bytes (the empty text included).
NotHexOf65Bytes(text) ==
    LET digits == Digits(text)
    IN \/ Len(digits) # 2 * 65
       \/ \E i \in 1..Len(digits) : ~IsHexChar(digits[i])

HexCharValue(c) == IF c <= 57 THEN c - 48 ELSE IF c >= 97 THEN c - 87 ELSE c - 55

\* The last of the 65 bytes.
VByte(text) ==
    LET digits == Digits(text)
    IN 16 * HexCharValue(digits[129]) + HexCharValue(digits[130])

\* v is none of 0, 1, 27, 28 nor an EIP-155 value (35 and above).
UnrecognizedDiscriminant(text) ==
    /\ ~NotHexOf65Bytes(text)
    /\ LET v == VByte(text) IN v \notin {0, 1, 27, 28} /\ v < 35

(***************************************************************************)
(* C3: a signature text that is not valid hex, or decodes to a length      *)
(* other than 65 bytes, or is empty, makes the call return                 *)
(* MalformedSignature ("Failed to parse signature"): no address, no        *)
(* recovery failure, and recovery is not attempted.                        *)
(***************************************************************************)
C3_MalformedRejected ==
    \A w \in Workers :
        Returned(w) /\ NotHexOf65Bytes(req[w].sigHeader) =>
            /\ ~result[w].ok
            /\ result[w].address = <<>>
            /\ result[w].context = "Failed to parse signature"
            /\ stages[w] = <<"hash", "parse">>

C3_Witness ==
    \E w \in Workers :
        /\ Returned(w)
        /\ req[w].hasSig
        /\ req[w].sigHeader = <<>>
        /\ result[w].context = "Failed to parse signature"

(***************************************************************************)
(* C4 as stated: a well-formed 65-byte hex signature whose v is not a      *)
(* recognized recovery discriminant fails at the parse step, with          *)
(* "Failed to parse signature".                                            *)
(***************************************************************************)
C4_BadVFailsAtParse ==
    \A w \in Workers :
        Returned(w) /\ UnrecognizedDiscriminant(req[w].sigHeader) =>
            result[w].context = "Failed to parse signature"

(***************************************************************************)
(* C4 amended: a well-formed 65-byte hex signature whose v is not a        *)
(* recognized recovery discriminant passes the parse step (the parser      *)
(* keeps the v byte as it is), so the result is never MalformedSignature;  *)
(* recovery is attempted and no address is returned: the v byte is         *)
(* rejected at the recovery step.                                          *)
(***************************************************************************)
C4_BadVPassesParse ==
    \A w \in Workers :
        UnrecognizedDiscriminant(req[w].sigHeader) =>
            /\ "parse" \in {stages[w][i] : i \in 1..Len(stages[w])} =>
                  /\ signature[w].ok
                  /\ signature[w].v = VByte(req[w].sigHeader)
                  /\ pc[w] \in {"recover", "returned"}
            /\ Returned(w) =>
                  /\ stages[w] = <<"hash", "parse", "recover">>
                  /\ ~result[w].ok
                  /\ result[w].context # "Failed to parse signature"

C4_Witness ==
    \E w \in Workers :
        /\ Returned(w)
        /\ UnrecognizedDiscriminant(req[w].sigHeader)
        /\ VByte(req[w].sigHeader) = 29
        /\ signature[w].ok
        /\ stages[w] = <<"hash", "parse", "recover">>
        /\ ~result[w].ok

(***************************************************************************)
(* C5: round trip.  When the signature text is key K's signature over the  *)
(* digest of the documented preimage of the payload the call is given,     *)
(* the call returns success with the address derived from K.               *)
(***************************************************************************)
C5_RoundTrip ==
    \A w \in Workers :
        Returned(w) /\ req[w].signer # 0 /\ req[w].signed = body_bytes[w].bytes =>
            /\ result[w].ok
            /\ result[w].address = Zeros(19) \o <<req[w].signer>>
            /\ result[w].context = ""

C5_Witness ==
    \E w \in Workers :
        /\ Returned(w)
        /\ req[w].signer = 2
        /\ req[w].signed = Hello
        /\ body_bytes[w].bytes = Hello
        /\ StartsWith(req[w].sigHeader, <<48, 120>>)
        /\ result[w].ok
        /\ result[w].address = Zeros(19) \o <<2>>

(***************************************************************************)
(* C6: tampered payload.  When the signature text is key K's signature on  *)
(* a payload P1 and the call is given a different payload P2, the preimage *)
(* and the digest of P2 differ from those of P1 (the construction is       *)
(* injective), and the call never returns K's address.                     *)
(***************************************************************************)
C6_TamperDetected ==
    \A w \in Workers :
        req[w].signer # 0 /\ req[w].signed # body_bytes[w].bytes =>
            /\ Hashed(w) =>
                  /\ hashed_msg[w].of # Format(req[w].signed)
                  /\ hashed_msg[w] # keccak256(Format(req[w].signed))
            /\ Returned(w) =>
                  ~(result[w].ok /\ result[w].address = Zeros(19) \o <<req[w].signer>>)

C6_Witness ==
    \E w \in Workers :
        /\ Returned(w)
        /\ req[w].signer = 1
        /\ req[w].signed = <<1, 21>>
        /\ body_bytes[w].bytes = <<12, 1>>
        /\ result[w].ok
        /\ result[w].address # Zeros(19) \o <<1>>

(***************************************************************************)
(* C7: a request without the X-Signature header is answered with the body  *)
(* "Missing X-Signature header", which no other request gets;              *)
(* recover_address_from_signature is not invoked and the request body is   *)
(* not read for it.  The function is invoked only for requests that carry  *)
(* the header.                                                             *)
(***************************************************************************)
C7_MissingHeader ==
    \A w \in Workers :
        /\ pc[w] # "idle" /\ ~req[w].hasSig =>
              /\ stages[w] = <<>>
              /\ ~body_bytes[w].read
              /\ ~Hashed(w)
              /\ ~Returned(w)
              /\ pc[w] \in {"handle", "respond", "done"}
              /\ response[w].sent =>
                    /\ response[w].ok
                    /\ response[w].body.text = "Missing X-Signature header"
        /\ stages[w] # <<>> => req[w].hasSig
        /\ body_bytes[w].read => req[w].hasSig
        /\ req[w].hasSig =>
              /\ msg[w].text # "Missing X-Signature header"
              /\ response[w].body.text # "Missing X-Signature header"

C7_Witness ==
    \E w \in Workers :
        /\ ~req[w].hasSig
        /\ req[w].body = Hello
        /\ pc[w] = "done"
        /\ response[w].sent
        /\ response[w].body.text = "Missing X-Signature header"
        /\ stages[w] = <<>>

(***************************************************************************)
(* recover_address_from_signature run alone, lines 25-42.                  *)
(***************************************************************************)
RecoverAddressFromSignature(message, signature_str) ==
    LET digest == keccak256(Format(message))
        parsed == SignatureFromStr(signature_str)
    IN IF ~parsed.ok
       THEN [NoResult EXCEPT !.returned = TRUE, !.context = ParseContext,
                             !.cause = parsed.cause]
       ELSE LET recovered == SignatureRecover(parsed, digest)
            IN IF recovered.ok
               THEN [NoResult EXCEPT !.returned = TRUE, !.ok = TRUE,
                                     !.address = recovered.address]
               ELSE [NoResult EXCEPT !.returned = TRUE, !.context = RecoverContext,
                                     !.cause = recovered.cause]

\* The slot of worker w.
Slot(w) ==
    <<pc[w], req[w], body_bytes[w], hashed_msg[w], signature[w], result[w], msg[w],
      response[w], stages[w]>>

\* A step changes the slot of one worker at most.
OneSlotPerStep ==
    \A w1, w2 \in Workers : w1 # w2 /\ Slot(w1)' # Slot(w1) => Slot(w2)' = Slot(w2)

\* What an invocation has computed so far is what it computes when run alone.
AsIfAlone ==
    \A w \in Workers :
        /\ Hashed(w) => hashed_msg[w] = keccak256(Format(req[w].body))
        /\ Returned(w) =>
              result[w] = RecoverAddressFromSignature(req[w].body, req[w].sigHeader)

SameInputSameResult ==
    \A w1, w2 \in Workers :
        /\ Returned(w1) /\ Returned(w2)
        /\ req[w1].body = req[w2].body
        /\ req[w1].sigHeader = req[w2].sigHeader
        => /\ result[w1] = result[w2]
           /\ result[w1].ok = result[w2].ok
           /\ result[w1].context = result[w2].context

(***************************************************************************)
(* C9: under every interleaving of the workers, the result of an           *)
(* invocation depends on its own payload and signature text only: it is    *)
(* the result of running it alone, two invocations on the same input       *)
(* return the same address or the same error, and no step of one           *)
(* invocation changes the state of another.                                *)
(***************************************************************************)
C9_Isolation == [](AsIfAlone /\ SameInputSameResult) /\ [][OneSlotPerStep]_vars

C9_Witness ==
    \E w1, w2 \in Workers :
        /\ w1 # w2
        /\ Returned(w1) /\ Returned(w2)
        /\ req[w1].body # req[w2].body
        /\ req[w1].sigHeader # req[w2].sigHeader
        /\ result[w1].ok /\ result[w2].ok
        /\ result[w1].address # result[w2].address

=============================================================================
